---- MODULE Spec2Model ----
(***************************************************************************)
(* Resource allocation and status transitions of the community platform:   *)
(* volunteer-opportunity seats (App.tsx, VolunteerPage), food donations     *)
(* and food requests (VolunteerPage and the restaurant dashboard), issue    *)
(* review (NgoIssuesView), the monetary total (Success page) and the        *)
(* donation and monetary leaderboards (LeaderboardPage).                    *)
(*                                                                          *)
(* The store is Firestore: every updateDoc is applied atomically to one     *)
(* document, but the clients decide what to write from their own local      *)
(* copy of the document (React state filled by an earlier query), which     *)
(* may be stale.  The store is taken to be reachable and to accept every    *)
(* update of an existing document.  Each subsystem has its own              *)
(* specification over the same variables; the variables of the other        *)
(* subsystems stay unchanged.                                               *)
(***************************************************************************)
EXTENDS Integers, Sequences, FiniteSets, TLC

VARIABLES
    \* ---- opportunities (collection "opportunities", one document) ----
    opp,          \* the stored document: spots, status, signedUpVolunteers
    oppView,      \* per volunteer: the `opportunities` React state (a list)
    oppQueue,     \* per volunteer: updateDoc calls awaiting their result
    \* ---- food donations (collection "food_donations", one document) ----
    don,          \* the stored document
    foodView,     \* per volunteer: the `foodDonations` React state (a list)
    claimPc,      \* per volunteer: position inside handleClaimFood
    myDonations,  \* per restaurant: the `myDonations` React state (a list)
    \* ---- issues (collection "issues") ----
    issues,       \* the stored documents, by id
    issuesView,   \* per NGO: the `issues` React state (a list)
    ngoProfile,   \* per NGO: the `ngoProfile` React state (none before the fetch)
    \* ---- monetary total (collection "users", one document) ----
    userDoc,      \* the stored profile of the donor
    page,         \* the mounted Success page: URL parameters, auth, status
    payQueue,     \* increments sent by Success pages, awaiting their result
    credited,     \* per payment session: increments the store has applied
    \* ---- food requests (collection "food_requests") ----
    requests,     \* the stored documents, by id
    foodRequests, \* per restaurant: the `foodRequests` React state (a list)
    \* ---- donation leaderboard (LeaderboardPage) ----
    donations,    \* the food_donations collection the leaderboard reads
    board,        \* the mounted page: position in fetchRestaurantData, results
    \* ---- monetary leaderboard (LeaderboardPage, collection "users") ----
    users,        \* the stored profiles, by id
    donorBoard,   \* the mounted page: `donorLeaderboard`, error; increments applied
    \* ---- shared ----
    toast         \* per actor: title of the last toast shown

vars == <<opp, oppView, oppQueue,
          don, foodView, claimPc, myDonations,
          issues, issuesView, ngoProfile,
          userDoc, page, payQueue, credited,
          requests, foodRequests,
          donations, board,
          users, donorBoard,
          toast>>

oppVars   == <<opp, oppView, oppQueue>>
donVars   == <<don, foodView, claimPc, myDonations>>
issueVars == <<issues, issuesView, ngoProfile>>
payVars   == <<userDoc, page, payQueue, credited>>
reqVars   == <<requests, foodRequests>>
boardVars == <<donations, board>>
donorVars == <<users, donorBoard>>

(***************************************************************************)
(* Actors and bounds                                                        *)
(***************************************************************************)
Volunteers  == {"v1", "v2"}
Restaurants == {"r1", "r2"}
Ngos        == {"n1", "n2", "n3", "n4"}
Donors      == {"u1"}
Actors      == Volunteers \cup Restaurants \cup Ngos \cup Donors

MaxSpots    == 2   \* largest capacity an opportunity is created with
MaxInflight == 2   \* updateDoc calls one client has in flight at once

NoToast == "none"

Range(s) == {s[i] : i \in 1..Len(s)}

Min(a, b) == IF a <= b THEN a ELSE b

(***************************************************************************)
(* Firestore field transforms                                               *)
(***************************************************************************)
\* the mutant of ArrayUnion: the field is overwritten with the caller's entry
ArrayReplace(arr, x) == <<x>>

\* arrayUnion(x): adds x unless the array already holds it
ArrayUnion(arr, x) == IF x \in Range(arr) THEN arr ELSE Append(arr, x)

\* arrayRemove(x): removes every occurrence of x
ArrayRemove(arr, x) == SelectSeq(arr, LAMBDA e : e # x)

(***************************************************************************)
(* Opportunities                                                            *)
(***************************************************************************)

\* query(opportunities, where status == "open"): the list the page shows
OpenOpportunities(o) == IF o.status = "open" THEN <<o>> ELSE <<>>

\* isUserSignedUp(opportunity)
IsUserSignedUp(o, uid) == uid \in Range(o.signedUpVolunteers)

\* the `disabled` attribute of the Sign Up button
SignUpDisabled(o) ==
    \/ Len(o.signedUpVolunteers) >= o.spots
    \/ o.status # "open"

\* updatePayload of handleSignUp: status 'full' is part of the payload only
\* when the caller's copy says this sign-up takes the last seat
SignUpSetsFull(currentSpots, signedUpVolunteers) ==
    Len(signedUpVolunteers) + 1 >= currentSpots

\* what the store does with handleSignUp's payload
SignUpUpdate(o, uid, setsFull) ==
    [o EXCEPT !.signedUpVolunteers = ArrayUnion(@, uid),
              !.status = IF setsFull THEN "full" ELSE @]

\* the mutant of CancelUpdate: the payload forgets to reopen
CancelUpdateKeepsStatus(o, uid) ==
    [o EXCEPT !.signedUpVolunteers = ArrayRemove(@, uid)]

\* what the store does with handleCancelSignUp's payload
CancelUpdate(o, uid) ==
    [o EXCEPT !.signedUpVolunteers = ArrayRemove(@, uid),
              !.status = "open"]

\* setOpportunities after a successful sign-up: a plain append to the copy
LocalSignUp(o, uid, setsFull) ==
    [o EXCEPT !.signedUpVolunteers = Append(@, uid),
              !.status = IF setsFull THEN "full" ELSE @]

\* setOpportunities after a successful cancellation
LocalCancel(o, uid) ==
    [o EXCEPT !.signedUpVolunteers = SelectSeq(@, LAMBDA e : e # uid),
              !.status = "open"]

MapView(view, F(_)) == [i \in 1..Len(view) |-> F(view[i])]

\* the page is mounted and its effect fetches the open opportunities; the
\* calls still in flight belong to the previous mount, whose setOpportunities
\* no longer has any effect
FetchOpportunities(v) ==
    /\ oppView' = [oppView EXCEPT ![v] = OpenOpportunities(opp)]
    /\ oppQueue' = [oppQueue EXCEPT
                      ![v] = [i \in 1..Len(@) |-> [@[i] EXCEPT !.live = FALSE]]]
    /\ UNCHANGED <<opp, toast>>
    /\ UNCHANGED <<donVars, issueVars, payVars, reqVars, boardVars, donorVars>>

\* handleSignUp(opportunity.id, opportunity.spots, opportunity.signedUpVolunteers)
\* called by the Sign Up button of the volunteer's copy, up to the await
HandleSignUp(v) ==
    /\ Len(oppView[v]) = 1
    /\ LET o == oppView[v][1] IN
         /\ ~IsUserSignedUp(o, v)
         /\ ~SignUpDisabled(o)
         /\ Len(oppQueue[v]) < MaxInflight
         /\ IF v \in Range(o.signedUpVolunteers)
            THEN /\ toast' = [toast EXCEPT ![v] = "Already Signed Up"]
                 /\ UNCHANGED oppQueue
            ELSE IF Len(o.signedUpVolunteers) >= o.spots
            THEN /\ toast' = [toast EXCEPT ![v] = "Opportunity Full"]
                 /\ UNCHANGED oppQueue
            ELSE /\ oppQueue' = [oppQueue EXCEPT ![v] = Append(@,
                        [op       |-> "signUp",
                         full     |-> SignUpSetsFull(o.spots, o.signedUpVolunteers),
                         live     |-> TRUE])]
                 /\ UNCHANGED toast
    /\ UNCHANGED <<opp, oppView>>
    /\ UNCHANGED <<donVars, issueVars, payVars, reqVars, boardVars, donorVars>>

\* handleCancelSignUp(opportunity.id), called by the Cancel Sign Up button,
\* which replaces the Sign Up button when the copy lists the volunteer
HandleCancelSignUp(v) ==
    /\ Len(oppView[v]) = 1
    /\ IsUserSignedUp(oppView[v][1], v)
    /\ Len(oppQueue[v]) < MaxInflight
    /\ oppQueue' = [oppQueue EXCEPT ![v] = Append(@,
            [op       |-> "cancel",
             full     |-> FALSE,
             live     |-> TRUE])]
    /\ UNCHANGED <<opp, oppView, toast>>
    /\ UNCHANGED <<donVars, issueVars, payVars, reqVars, boardVars, donorVars>>

\* the store applies the sign-up payload (updateDoc has no precondition) and
\* handleSignUp continues after the await: toast, then setOpportunities
SignUpCommit(v) ==
    /\ oppQueue[v] # <<>>
    /\ LET r == Head(oppQueue[v]) IN
         /\ r.op = "signUp"
         /\ opp' = SignUpUpdate(opp, v, r.full)
         /\ toast' = [toast EXCEPT ![v] = "Sign Up Successful!"]
         /\ oppView' = [oppView EXCEPT ![v] =
                IF r.live
                THEN MapView(@, LAMBDA o : LocalSignUp(o, v, r.full))
                ELSE @]
    /\ oppQueue' = [oppQueue EXCEPT ![v] = Tail(@)]
    /\ UNCHANGED <<donVars, issueVars, payVars, reqVars, boardVars, donorVars>>

\* the store applies the cancellation payload and handleCancelSignUp
\* continues after the await
CancelCommit(v) ==
    /\ oppQueue[v] # <<>>
    /\ LET r == Head(oppQueue[v]) IN
         /\ r.op = "cancel"
         /\ opp' = CancelUpdate(opp, v)
         /\ toast' = [toast EXCEPT ![v] = "Sign Up Cancelled"]
         /\ oppView' = [oppView EXCEPT ![v] =
                IF r.live
                THEN MapView(@, LAMBDA o : LocalCancel(o, v))
                ELSE @]
    /\ oppQueue' = [oppQueue EXCEPT ![v] = Tail(@)]
    /\ UNCHANGED <<donVars, issueVars, payVars, reqVars, boardVars, donorVars>>

\* the organisation closes its opportunity by hand (status 'closed')
CloseOpportunity ==
    /\ opp.status # "closed"
    /\ opp' = [opp EXCEPT !.status = "closed"]
    /\ UNCHANGED <<oppView, oppQueue, toast>>
    /\ UNCHANGED <<donVars, issueVars, payVars, reqVars, boardVars, donorVars>>

(***************************************************************************)
(* Food donations                                                           *)
(***************************************************************************)
PickupNotes == {"at 5pm", "call first"}

\* query(food_donations, where status == "available"): the volunteer's list
AvailableDonations(d) == IF d.status = "available" THEN <<d>> ELSE <<>>

\* the mutant of DonationsOf: the query without its restaurantId filter
DonationsOfAnyone(d, r) == <<d>>

\* query(food_donations, where restaurantId == user.uid): the restaurant's list
DonationsOf(d, r) == IF d.restaurantId = r THEN <<d>> ELSE <<>>

\* updatePayload of handleClaimFood, applied by updateDoc (volunteerName,
\* volunteerPhoneNumber and claimedAt are set by the same payload)
ClaimUpdate(d, uid, notes) ==
    [d EXCEPT !.status = "claimed",
              !.claimedByVolunteerId = <<uid>>,
              !.volunteerPickupNotes = <<notes>>]

\* the payload of markDonationUnavailable
UnavailableUpdate(d) == [d EXCEPT !.status = "unavailable"]

ClaimIdle == [pc |-> "idle", notes |-> ""]

\* the volunteer page is mounted and fetches the available donations (a
\* volunteer stays on the page while a claim of theirs is under way)
FetchFoodDonations(v) ==
    /\ claimPc[v].pc = "idle"
    /\ foodView' = [foodView EXCEPT ![v] = AvailableDonations(don)]
    /\ UNCHANGED <<don, claimPc, myDonations, toast>>
    /\ UNCHANGED <<oppVars, issueVars, payVars, reqVars, boardVars, donorVars>>

\* handleClaimFood(donation.id, pickupNotes, pickupPhoneNumber) up to its
\* first await; the button is disabled while claimingFoodId is the donation
HandleClaimFood(v, notes) ==
    /\ Len(foodView[v]) = 1
    /\ claimPc[v].pc = "idle"
    /\ claimPc' = [claimPc EXCEPT ![v] = [pc |-> "getDoc", notes |-> notes]]
    /\ UNCHANGED <<don, foodView, myDonations, toast>>
    /\ UNCHANGED <<oppVars, issueVars, payVars, reqVars, boardVars, donorVars>>

\* getDoc resolves: the claim goes on only if the snapshot is available
ClaimGetDoc(v) ==
    /\ claimPc[v].pc = "getDoc"
    /\ IF don.status # "available"
       THEN /\ toast' = [toast EXCEPT ![v] = "Claim Failed"]
            /\ claimPc' = [claimPc EXCEPT ![v] = ClaimIdle]
       ELSE /\ claimPc' = [claimPc EXCEPT ![v].pc = "updateDoc"]
            /\ UNCHANGED toast
    /\ UNCHANGED <<don, foodView, myDonations>>
    /\ UNCHANGED <<oppVars, issueVars, payVars, reqVars, boardVars, donorVars>>

\* updateDoc resolves: the payload is written whatever the document holds by
\* now, then the toast, the local filter and the finally block
ClaimUpdateDoc(v) ==
    /\ claimPc[v].pc = "updateDoc"
    /\ don' = ClaimUpdate(don, v, claimPc[v].notes)
    /\ toast' = [toast EXCEPT ![v] = "Donation Claimed!"]
    /\ foodView' = [foodView EXCEPT ![v] = <<>>]
    /\ claimPc' = [claimPc EXCEPT ![v] = ClaimIdle]
    /\ UNCHANGED myDonations
    /\ UNCHANGED <<oppVars, issueVars, payVars, reqVars, boardVars, donorVars>>

\* the restaurant dashboard is mounted and fetches the restaurant's donations
FetchMyDonations(r) ==
    /\ myDonations' = [myDonations EXCEPT ![r] = DonationsOf(don, r)]
    /\ UNCHANGED <<don, foodView, claimPc, toast>>
    /\ UNCHANGED <<oppVars, issueVars, payVars, reqVars, boardVars, donorVars>>

\* markDonationUnavailable(donation.id), offered for the donations the
\* restaurant's copy lists as available
MarkDonationUnavailable(r) ==
    /\ Len(myDonations[r]) = 1
    /\ myDonations[r][1].status = "available"
    /\ don' = UnavailableUpdate(don)
    /\ myDonations' = [myDonations EXCEPT ![r] =
            MapView(@, LAMBDA d : [d EXCEPT !.status = "unavailable"])]
    /\ toast' = [toast EXCEPT ![r] = "Donation Updated"]
    /\ UNCHANGED <<foodView, claimPc>>
    /\ UNCHANGED <<oppVars, issueVars, payVars, reqVars, boardVars, donorVars>>

(***************************************************************************)
(* Issues                                                                   *)
(***************************************************************************)
IssueIds   == {"i1", "i2"}
Categories == {"education", "health", "environment"}

\* focus areas that no issue of the model is filed under
OtherAreas ==
    <<"area01", "area02", "area03", "area04", "area05", "area06", "area07",
      "area08", "area09", "area10", "area11", "area12", "area13", "area14",
      "area15", "area16", "area17", "area18", "area19", "area20", "area21",
      "area22", "area23", "area24", "area25", "area26", "area27", "area28",
      "area29", "area30">>

\* ngo_profiles/<id>.focusAreas.  Registration stores between one and eleven
\* areas (n1, n2); the collection is also written outside registration, and
\* fetchData provides for a profile with more than 30 areas (n3: OtherAreas,
\* then education as the 31st) and for one with none (n4)
FocusAreas == [n \in Ngos |->
                 CASE n = "n1" -> <<"education", "health">>
                   [] n = "n2" -> <<"health">>
                   [] n = "n3" -> OtherAreas \o <<"education">>
                   [] OTHER    -> <<>>]

InQueryLimit == 30   \* Firestore 'in' query limit
ResultLimit  == 50   \* limit(50) of the issues query

\* issueData of ReportIssue.handleSubmit; the server stamps the issues in
\* the order they are reported
ReportedIssue(id, category) ==
    [id |-> id, status |-> "pending", category |-> category,
     timestamp |-> IF id = "i1" THEN 1 ELSE 2, updatedAt |-> <<>>]

\* areasToQuery: the first 30 focus areas
AreasToQuery(areas) == SubSeq(areas, 1, Min(Len(areas), InQueryLimit))

TargetStatuses == {"pending", "in-progress"}

\* orderBy("timestamp", "desc") over a set of documents
RECURSIVE OrderByTimestampDesc(_)
OrderByTimestampDesc(docs) ==
    IF docs = {} THEN <<>>
    ELSE LET newest == CHOOSE d \in docs : \A e \in docs : e.timestamp <= d.timestamp
         IN  <<newest>> \o OrderByTimestampDesc(docs \ {newest})

\* the mutant of RelevantIssues: the query without its category filter
RelevantIssuesAnyCategory(iss, areas) ==
    IF Len(areas) = 0 THEN <<>>
    ELSE LET hits == {iss[i] : i \in {j \in IssueIds :
                          iss[j].status \in TargetStatuses}}
             sorted == OrderByTimestampDesc(hits)
         IN  SubSeq(sorted, 1, Min(Len(sorted), ResultLimit))

\* the query without its status filter
RelevantIssuesAnyStatus(iss, areas) ==
    IF Len(areas) = 0 THEN <<>>
    ELSE LET hits == {iss[i] : i \in {j \in IssueIds :
                          iss[j].category \in Range(AreasToQuery(areas))}}
             sorted == OrderByTimestampDesc(hits)
         IN  SubSeq(sorted, 1, Min(Len(sorted), ResultLimit))

\* the issues query of fetchData
RelevantIssues(iss, areas) ==
    IF Len(areas) = 0 THEN <<>>
    ELSE LET hits == {iss[i] : i \in {j \in IssueIds :
                          /\ iss[j].category \in Range(AreasToQuery(areas))
                          /\ iss[j].status \in TargetStatuses}}
             sorted == OrderByTimestampDesc(hits)
         IN  SubSeq(sorted, 1, Min(Len(sorted), ResultLimit))

\* a status update that reopens the issue
StatusUpdateToPending(i, newStatus) ==
    [i EXCEPT !.status = "pending", !.updatedAt = <<"serverTimestamp">>]

\* the payload of handleUpdateStatus
StatusUpdate(i, newStatus) ==
    [i EXCEPT !.status = newStatus, !.updatedAt = <<"serverTimestamp">>]

\* the buttons NgoIssuesView renders for an issue of the local list
ButtonShown(i, newStatus) ==
    \/ newStatus = "in-progress" /\ i.status = "pending"
    \/ newStatus = "resolved" /\ i.status \in {"pending", "in-progress"}

\* the mutant of CardDescription: the card shows its title only
CardDescriptionTitleOnly(profile) ==
    [text |-> "Relevant Community Issues", focusAreas |-> <<>>]

\* the CardDescription NgoIssuesView renders under its title
CardDescription(profile) ==
    IF profile # <<>> /\ Len(profile[1].focusAreas) > 0
    THEN [text |-> "Showing issues matching your focus areas: ",
          focusAreas |-> profile[1].focusAreas]
    ELSE [text |-> "No focus areas set in your profile to filter issues.",
          focusAreas |-> <<>>]

\* the CardContent NgoIssuesView renders once loading is over without error
CardContent(list) ==
    IF Len(list) = 0
    THEN [text |-> "No actionable issues found matching your focus areas right now.",
          issues |-> <<>>]
    ELSE [text |-> "", issues |-> list]

\* what a mounted NgoIssuesView shows its NGO after fetchData has finished
Rendered(n) ==
    [description |-> CardDescription(ngoProfile[n]),
     content     |-> CardContent(issuesView[n])]

\* fetchData: the dashboard is mounted and loads the actionable issues
FetchIssues(n) ==
    /\ ngoProfile' = [ngoProfile EXCEPT ![n] = <<[focusAreas |-> FocusAreas[n]]>>]
    /\ issuesView' = [issuesView EXCEPT ![n] = RelevantIssues(issues, FocusAreas[n])]
    /\ UNCHANGED <<issues, toast>>
    /\ UNCHANGED <<oppVars, donVars, payVars, reqVars, boardVars, donorVars>>

\* handleUpdateStatus(issue.id, newStatus), called by a button of the list
HandleUpdateStatus(n, id, newStatus) ==
    /\ \E k \in 1..Len(issuesView[n]) :
          /\ issuesView[n][k].id = id
          /\ ButtonShown(issuesView[n][k], newStatus)
    /\ issues' = [issues EXCEPT ![id] = StatusUpdate(@, newStatus)]
    /\ issuesView' = [issuesView EXCEPT ![n] =
            MapView(@, LAMBDA i : IF i.id = id
                                  THEN [i EXCEPT !.status = newStatus] ELSE i)]
    /\ toast' = [toast EXCEPT ![n] = "Status Updated"]
    /\ UNCHANGED ngoProfile
    /\ UNCHANGED <<oppVars, donVars, payVars, reqVars, boardVars, donorVars>>

(***************************************************************************)
(* Monetary total                                                           *)
(***************************************************************************)
Sessions   == {"cs_1", "cs_2"}
AmountStrs == {"25", "50", "0", "-5", "abc"}

MaxIncrements == 2   \* increments sent to the store in a run

\* a conversion that drops the sign
NumberUnsigned(str) ==
    CASE str = "25" -> <<25>>
      [] str = "50" -> <<50>>
      [] str = "0"  -> <<0>>
      [] str = "-5" -> <<5>>
      [] OTHER      -> <<>>

\* Number(amountStr): <<>> stands for NaN
Number(str) ==
    CASE str = "25" -> <<25>>
      [] str = "50" -> <<50>>
      [] str = "0"  -> <<0>>
      [] str = "-5" -> <<0 - 5>>
      [] OTHER      -> <<>>

\* an optional field read as a number: a missing totalDonated counts as 0
Total(u) == IF u.totalDonated = <<>> THEN 0 ELSE u.totalDonated[1]

\* a plain field write in place of the transform: the last amount wins
IncrementOverwrites(u, amount) == [u EXCEPT !.totalDonated = <<amount>>]

\* increment(amount)
Increment(u, amount) == [u EXCEPT !.totalDonated = <<Total(u) + amount>>]

\* increments sent so far: those in flight and those the store has applied
IncrementsSent == Len(payQueue) + Len(credited)

\* /success?session_id=..&amount=.. is loaded: a new mount, status idle; the
\* effect cleanup of the previous mount has run
LoadSuccessPage(sid, amt) ==
    /\ page' = <<[sessionId    |-> sid,
                  amount       |-> amt,
                  authLoading  |-> TRUE,
                  user         |-> <<>>,
                  updateStatus |-> "idle",
                  errorMessage |-> <<>>]>>
    /\ payQueue' = [i \in 1..Len(payQueue) |->
                      [payQueue[i] EXCEPT !.isMounted = FALSE]]
    /\ UNCHANGED <<userDoc, credited, toast>>
    /\ UNCHANGED <<oppVars, donVars, issueVars, reqVars, boardVars, donorVars>>

\* the URL of the mounted page changes (history navigation between two
\* /success URLs): searchParams changes, the effect runs again, updateStatus
\* keeps its value
SearchParamsChanged(sid, amt) ==
    /\ Len(page) = 1
    /\ <<sid, amt>> # <<page[1].sessionId, page[1].amount>>
    /\ page' = <<[page[1] EXCEPT !.sessionId = sid, !.amount = amt]>>
    /\ UNCHANGED <<userDoc, payQueue, credited, toast>>
    /\ UNCHANGED <<oppVars, donVars, issueVars, reqVars, boardVars, donorVars>>

\* the auth context finishes loading, with or without a logged-in user
AuthResolved(u) ==
    /\ Len(page) = 1
    /\ page[1].authLoading
    /\ page' = <<[page[1] EXCEPT !.authLoading = FALSE, !.user = u]>>
    /\ UNCHANGED <<userDoc, payQueue, credited, toast>>
    /\ UNCHANGED <<oppVars, donVars, issueVars, reqVars, boardVars, donorVars>>

\* updateDonationCount up to its await.  setUpdateStatus('pending') changes
\* a dependency of the effect, so the re-render runs the cleanup of this
\* very run before updateDoc resolves: its isMounted is false by then
UpdateDonationCount ==
    /\ Len(page) = 1
    /\ LET pg == page[1] IN
         /\ ~pg.authLoading
         /\ pg.user # <<>>
         /\ pg.updateStatus = "idle"
         /\ IF pg.sessionId = <<>>
            THEN /\ page' = <<[pg EXCEPT !.updateStatus = "error",
                        !.errorMessage = <<"Missing payment session info. Leaderboard update skipped.">>]>>
                 /\ UNCHANGED payQueue
            ELSE IF pg.amount = <<>> \/ Number(pg.amount[1]) = <<>>
            THEN /\ page' = <<[pg EXCEPT !.updateStatus = "error",
                        !.errorMessage = <<"Missing amount info. Leaderboard update skipped.">>]>>
                 /\ UNCHANGED payQueue
            ELSE IF Number(pg.amount[1])[1] <= 0
            THEN /\ page' = <<[pg EXCEPT !.updateStatus = "error",
                        !.errorMessage = <<"Invalid donation amount received.">>]>>
                 /\ UNCHANGED payQueue
            ELSE /\ IncrementsSent < MaxIncrements
                 /\ page' = <<[pg EXCEPT !.updateStatus = "pending"]>>
                 /\ payQueue' = Append(payQueue,
                        [uid       |-> pg.user[1],
                         sessionId |-> pg.sessionId[1],
                         amount    |-> Number(pg.amount[1])[1],
                         isMounted |-> FALSE])
    /\ UNCHANGED <<userDoc, credited, toast>>
    /\ UNCHANGED <<oppVars, donVars, issueVars, reqVars, boardVars, donorVars>>

\* updateDoc(userRef, {totalDonated: increment(amount)}) resolves
IncrementApplied ==
    /\ payQueue # <<>>
    /\ LET r == Head(payQueue) IN
         /\ userDoc' = Increment(userDoc, r.amount)
         /\ credited' = Append(credited, [sessionId |-> r.sessionId, amount |-> r.amount])
         /\ IF r.isMounted
            THEN /\ page' = <<[page[1] EXCEPT !.updateStatus = "success"]>>
                 /\ toast' = [toast EXCEPT ![r.uid] = "Leaderboard Updated"]
            ELSE UNCHANGED <<page, toast>>
    /\ payQueue' = Tail(payQueue)
    /\ UNCHANGED <<oppVars, donVars, issueVars, reqVars, boardVars, donorVars>>

(***************************************************************************)
(* Food requests                                                            *)
(***************************************************************************)
RequestIds == {"q1", "q2"}

RequestLimit == 15   \* limit(15) of the food_requests query

\* a food request as its NGO files it (ngoId, foodType, quantity and
\* description play no part in the transitions); q2 is the newer one
NewFoodRequest(id) ==
    [id |-> id, status |-> "pending", createdAt |-> IF id = "q1" THEN 1 ELSE 2,
     restaurantId |-> <<>>]

\* orderBy("createdAt", "desc") over a set of documents
RECURSIVE OrderByCreatedAtDesc(_)
OrderByCreatedAtDesc(docs) ==
    IF docs = {} THEN <<>>
    ELSE LET newest == CHOOSE d \in docs : \A e \in docs : e.createdAt <= d.createdAt
         IN  <<newest>> \o OrderByCreatedAtDesc(docs \ {newest})

\* query(food_requests, where status == "pending", orderBy createdAt desc,
\* limit(15))
PendingRequests(reqs) ==
    LET sorted == OrderByCreatedAtDesc({reqs[q] : q \in {x \in RequestIds :
                                            reqs[x].status = "pending"}})
    IN  SubSeq(sorted, 1, Min(Len(sorted), RequestLimit))

\* the payload of handleVerification (restaurantName and updatedAt are set
\* by the same payload)
VerificationUpdate(req, status, uid) ==
    [req EXCEPT !.status = status, !.restaurantId = <<uid>>]

\* fetchRequests: the restaurant dashboard is mounted
FetchRequests(r) ==
    /\ foodRequests' = [foodRequests EXCEPT ![r] = PendingRequests(requests)]
    /\ UNCHANGED <<requests, toast>>
    /\ UNCHANGED <<oppVars, donVars, issueVars, payVars, boardVars, donorVars>>

\* handleVerification(req.id, status), called by the Accept or the Reject
\* button of a request of the restaurant's list
HandleVerification(r, id, status) ==
    /\ \E k \in 1..Len(foodRequests[r]) : foodRequests[r][k].id = id
    /\ requests' = [requests EXCEPT ![id] = VerificationUpdate(@, status, r)]
    /\ foodRequests' = [foodRequests EXCEPT ![r] =
            SelectSeq(@, LAMBDA req : req.id # id)]
    /\ toast' = [toast EXCEPT ![r] =
            IF status = "accepted" THEN "Request accepted" ELSE "Request rejected"]
    /\ UNCHANGED <<oppVars, donVars, issueVars, payVars, boardVars, donorVars>>

(***************************************************************************)
(* Donation leaderboard                                                     *)
(***************************************************************************)
MaxRestaurants    == 11  \* restaurants holding one claimed donation each
MaxExtra          == 2   \* further claimed donations of restaurant 2
MaxOvertakes      == 1   \* times a profile lookup settles before an earlier one
MaxLookupFailures == 1   \* profile lookups that fail during one fetch

TopEntries == 10   \* leaderboardEntries.slice(0, 10)

\* the restaurants of the leaderboard's collection, by number
BoardRestaurants == 1..MaxRestaurants

Front(seq) == SubSeq(seq, 1, Len(seq) - 1)
Last(seq)  == seq[Len(seq)]

\* a food_donations document as the leaderboard reads it; restaurantId is
\* <<>> on a document that lacks the field
Donation(status, restaurantId) == [status |-> status, restaurantId |-> restaurantId]

\* users/<id>.name, present on some of the restaurants' user documents
UserName(id) == IF id % 3 = 1 THEN <<[field |-> "name", of |-> id]>> ELSE <<>>

\* restaurant_profiles/<id>.restName
RestName(id) == IF id % 3 = 2 THEN <<[field |-> "restName", of |-> id]>> ELSE <<>>

\* an entry pushed without a name
NoName(id) == [field |-> "", of |-> id]

\* `Restaurant (${id.substring(0, 5)}...)`
FallbackName(id) == [field |-> "Restaurant (...)", of |-> id]

\* the name a successful profile lookup yields
LookedUpName(id) ==
    IF UserName(id) # <<>> THEN UserName(id)[1]
    ELSE IF RestName(id) # <<>> THEN RestName(id)[1]
    ELSE FallbackName(id)

\* query(food_donations, where status == "claimed")
ClaimedDonations(docs) == SelectSeq(docs, LAMBDA d : d.status = "claimed")

\* Object.keys(restaurantCounts): the restaurants of the snapshot, in the
\* order the loop first met them
RECURSIVE RestaurantIds(_)
RestaurantIds(snapshot) ==
    IF snapshot = <<>> THEN <<>>
    ELSE LET ids == RestaurantIds(Front(snapshot))
             d   == Last(snapshot)
         IN  IF d.restaurantId = <<>> \/ d.restaurantId[1] \in Range(ids)
             THEN ids
             ELSE Append(ids, d.restaurantId[1])

\* restaurantCounts after the forEach over the snapshot
RestaurantCounts(snapshot) ==
    [id \in Range(RestaurantIds(snapshot)) |->
        Cardinality({i \in 1..Len(snapshot) : snapshot[i].restaurantId = <<id>>})]

\* the mutant of SortByDonationCountDesc: the entries stay as they were pushed
SortNotDone(entries) == entries

\* leaderboardEntries.sort((a, b) => b.donationCount - a.donationCount); the
\* sort is stable
RECURSIVE SortByDonationCountDesc(_)
SortByDonationCountDesc(entries) ==
    IF entries = <<>> THEN <<>>
    ELSE LET sorted == SortByDonationCountDesc(Front(entries))
             e      == Last(entries)
             k      == Cardinality({i \in 1..Len(sorted) :
                           sorted[i].donationCount >= e.donationCount})
         IN  SubSeq(sorted, 1, k) \o <<e>> \o SubSeq(sorted, k + 1, Len(sorted))

BoardIdle ==
    [pc |-> "idle", restaurantCounts |-> <<>>, pending |-> <<>>,
     leaderboardEntries |-> <<>>, overtakes |-> 0, failures |-> 0,
     restaurantLeaderboard |-> <<>>, error |-> <<>>]

\* fetchRestaurantData up to the profile lookups, once the auth state is
\* known: the page is mounted by a visitor who is logged in or not
FetchRestaurantData(u) ==
    /\ board.pc \in {"idle", "done"}
    /\ IF u = <<>>
       THEN board' = [BoardIdle EXCEPT !.pc = "done",
                         !.error = <<"Please login to view leaderboards.">>]
       ELSE LET snapshot == ClaimedDonations(donations)
                ids      == RestaurantIds(snapshot)
            IN  IF Len(ids) = 0
                THEN board' = [BoardIdle EXCEPT !.pc = "done"]
                ELSE board' = [BoardIdle EXCEPT
                                 !.pc = "profiles",
                                 !.restaurantCounts = RestaurantCounts(snapshot),
                                 !.pending = ids]
    /\ UNCHANGED <<donations, toast>>
    /\ UNCHANGED <<oppVars, donVars, issueVars, payVars, reqVars, donorVars>>

\* one of the profile lookups started by restaurantIds.map settles: it pushes
\* its entry, with the fallback name when a getDoc threw
ProfileResolved(k, ok) ==
    /\ board.pc = "profiles"
    /\ k \in 1..Len(board.pending)
    /\ board.overtakes + (k - 1) <= MaxOvertakes
    /\ ok \/ board.failures < MaxLookupFailures
    /\ LET id == board.pending[k] IN
         board' = [board EXCEPT
            !.pending = SubSeq(@, 1, k - 1) \o SubSeq(@, k + 1, Len(@)),
            !.overtakes = @ + (k - 1),
            !.failures = IF ok THEN @ ELSE @ + 1,
            !.leaderboardEntries = Append(@,
                [id            |-> id,
                 name          |-> IF ok THEN LookedUpName(id) ELSE FallbackName(id),
                 donationCount |-> board.restaurantCounts[id]])]
    /\ UNCHANGED <<donations, toast>>
    /\ UNCHANGED <<oppVars, donVars, issueVars, payVars, reqVars, donorVars>>

\* Promise.all resolves: sort, slice and setRestaurantLeaderboard
LeaderboardSorted ==
    /\ board.pc = "profiles"
    /\ board.pending = <<>>
    /\ LET sorted == SortByDonationCountDesc(board.leaderboardEntries) IN
         board' = [board EXCEPT
            !.pc = "done",
            !.restaurantLeaderboard = SubSeq(sorted, 1, Min(Len(sorted), TopEntries))]
    /\ UNCHANGED <<donations, toast>>
    /\ UNCHANGED <<oppVars, donVars, issueVars, payVars, reqVars, donorVars>>

(***************************************************************************)
(* Monetary leaderboard                                                     *)
(***************************************************************************)
MaxDonors  == 11   \* profiles with a positive totalDonated at the start
MaxCredits == 1    \* increments the store applies to the profiles in a run

DonorLimit == 10   \* limit(10) of the users query

DonorProfiles == 1..(MaxDonors + 2)
CreditAmounts == {25, 50}

\* the users document handleRegister creates: it has no totalDonated
RegisteredProfile == [totalDonated |-> <<>>]

\* where("totalDonated", ">", 0) without its bound: what orderBy alone keeps
HasTotalDonated(profile) == profile.totalDonated # <<>>

\* where("totalDonated", ">", 0): a document without the field does not match
PositiveTotalDonated(profile) ==
    /\ profile.totalDonated # <<>>
    /\ profile.totalDonated[1] > 0

\* orderBy("totalDonated", "desc") over the documents ids: equal totals come
\* in descending order of the document id
RECURSIVE OrderByTotalDonatedDesc(_, _)
OrderByTotalDonatedDesc(us, ids) ==
    IF ids = {} THEN <<>>
    ELSE LET top == CHOOSE i \in ids : \A j \in ids :
                       \/ us[i].totalDonated[1] > us[j].totalDonated[1]
                       \/ /\ us[i].totalDonated[1] = us[j].totalDonated[1]
                          /\ i >= j
         IN  <<top>> \o OrderByTotalDonatedDesc(us, ids \ {top})

\* the query of fetchDonorData and the entries made of its snapshot; name and
\* photoURL are copied from the document and left out here
DonorsQuery(us) ==
    LET matching == {i \in DOMAIN us : PositiveTotalDonated(us[i])}
        ordered  == OrderByTotalDonatedDesc(us, matching)
        snapshot == SubSeq(ordered, 1, Min(Len(ordered), DonorLimit))
    IN  [k \in 1..Len(snapshot) |->
            [id |-> snapshot[k], totalDonated |-> us[snapshot[k]].totalDonated[1]]]

\* increments the store has applied to the profiles since the start
CreditsApplied == donorBoard.credits

\* the store applies the increment(amount) of a Success page to a profile
DonationCredited(i, amount) ==
    /\ CreditsApplied < MaxCredits
    /\ users' = [users EXCEPT ![i] = Increment(@, amount)]
    /\ donorBoard' = [donorBoard EXCEPT !.credits = @ + 1]
    /\ UNCHANGED toast
    /\ UNCHANGED <<oppVars, donVars, issueVars, payVars, reqVars, boardVars>>

\* fetchDonorData, once the auth state is known
FetchDonorData(u) ==
    /\ IF u = <<>>
       THEN donorBoard' = [donorBoard EXCEPT
                             !.donorLeaderboard = <<>>,
                             !.error = <<"Please login to view leaderboards.">>]
       ELSE donorBoard' = [donorBoard EXCEPT
                             !.donorLeaderboard = DonorsQuery(users),
                             !.error = <<>>]
    /\ UNCHANGED <<users, toast>>
    /\ UNCHANGED <<oppVars, donVars, issueVars, payVars, reqVars, boardVars>>

(***************************************************************************)
(* Initial values of the subsystems                                         *)
(***************************************************************************)
\* an opportunity as its organisation creates it: open, nobody signed up
NewOpportunity(n) == [spots |-> n, status |-> "open", signedUpVolunteers |-> <<>>]

\* donationData of AddFoodDonationForm.handleSubmit
NewDonation(r) ==
    [status |-> "available", restaurantId |-> r,
     claimedByVolunteerId |-> <<>>, volunteerPickupNotes |-> <<>>]

OppInit(n) ==
    /\ opp = NewOpportunity(n)
    /\ oppView = [v \in Volunteers |-> <<>>]
    /\ oppQueue = [v \in Volunteers |-> <<>>]

DonInit ==
    /\ don = NewDonation("r1")
    /\ foodView = [v \in Volunteers |-> <<>>]
    /\ claimPc = [v \in Volunteers |-> ClaimIdle]
    /\ myDonations = [r \in Restaurants |-> <<>>]

IssueInit(c1, c2) ==
    /\ issues = [i \in IssueIds |->
                    ReportedIssue(i, IF i = "i1" THEN c1 ELSE c2)]
    /\ issuesView = [n \in Ngos |-> <<>>]
    /\ ngoProfile = [n \in Ngos |-> <<>>]

PayInit ==
    /\ userDoc = [totalDonated |-> <<>>]
    /\ page = <<>>
    /\ payQueue = <<>>
    /\ credited = <<>>

\* the collection the leaderboard reads: a donation still available, a
\* claimed one without restaurantId, one claimed donation of each of the
\* first n restaurants, then b further claimed donations of restaurant 2
BoardInit(n, b) ==
    /\ donations = <<Donation("available", <<1>>), Donation("claimed", <<>>)>>
                      \o [i \in 1..n |-> Donation("claimed", <<i>>)]
                      \o [i \in 1..b |-> Donation("claimed", <<2>>)]
    /\ board = BoardIdle

\* the users collection: profile 1 as registration leaves it, profile 2
\* with a stored total of 0, then n profiles with positive totals, some of
\* them equal, and the remaining profiles as registration leaves them
DonorInit(n) ==
    /\ users = [i \in DonorProfiles |->
                  IF i = 2 THEN [totalDonated |-> <<0>>]
                  ELSE IF i \in 3..(n + 2)
                       THEN [totalDonated |-> <<25 * ((i % 3) + 1)>>]
                       ELSE RegisteredProfile]
    /\ donorBoard = [donorLeaderboard |-> <<>>, error |-> <<>>, credits |-> 0]

ReqInit ==
    /\ requests = [q \in RequestIds |-> NewFoodRequest(q)]
    /\ foodRequests = [r \in Restaurants |-> <<>>]

ToastInit == toast = [a \in Actors |-> NoToast]

(***************************************************************************)
(* Specification of the opportunities                                       *)
(***************************************************************************)
InitOpp ==
    /\ \E n \in 1..MaxSpots : OppInit(n)
    /\ DonInit /\ IssueInit("health", "health") /\ PayInit /\ ReqInit /\ BoardInit(0, 0) /\ DonorInit(0) /\ ToastInit

NextOpp ==
    \/ \E v \in Volunteers : FetchOpportunities(v)
    \/ \E v \in Volunteers : HandleSignUp(v)
    \/ \E v \in Volunteers : HandleCancelSignUp(v)
    \/ \E v \in Volunteers : SignUpCommit(v)
    \/ \E v \in Volunteers : CancelCommit(v)
    \/ CloseOpportunity

SpecOpp == InitOpp /\ [][NextOpp]_vars

(***************************************************************************)
(* Specification of the food donations                                      *)
(***************************************************************************)
InitDon ==
    /\ DonInit
    /\ OppInit(1) /\ IssueInit("health", "health") /\ PayInit /\ ReqInit /\ BoardInit(0, 0) /\ DonorInit(0) /\ ToastInit

NextDon ==
    \/ \E v \in Volunteers : FetchFoodDonations(v)
    \/ \E v \in Volunteers, n \in PickupNotes : HandleClaimFood(v, n)
    \/ \E v \in Volunteers : ClaimGetDoc(v)
    \/ \E v \in Volunteers : ClaimUpdateDoc(v)
    \/ \E r \in Restaurants : FetchMyDonations(r)
    \/ \E r \in Restaurants : MarkDonationUnavailable(r)

SpecDon == InitDon /\ [][NextDon]_vars

(***************************************************************************)
(* Specification of the issues                                              *)
(***************************************************************************)
InitIssue ==
    /\ \E c1 \in Categories, c2 \in Categories : IssueInit(c1, c2)
    /\ OppInit(1) /\ DonInit /\ PayInit /\ ReqInit /\ BoardInit(0, 0) /\ DonorInit(0) /\ ToastInit

NextIssue ==
    \/ \E n \in Ngos : FetchIssues(n)
    \/ \E n \in Ngos, id \in IssueIds, st \in {"in-progress", "resolved"} :
          HandleUpdateStatus(n, id, st)

SpecIssue == InitIssue /\ [][NextIssue]_vars

(***************************************************************************)
(* Specification of the monetary total                                      *)
(***************************************************************************)
InitPay ==
    /\ PayInit
    /\ OppInit(1) /\ DonInit /\ IssueInit("health", "health")
    /\ ReqInit /\ BoardInit(0, 0) /\ DonorInit(0) /\ ToastInit

NextPay ==
    \/ \E sid \in {<<>>} \cup {<<x>> : x \in Sessions},
          amt \in {<<>>} \cup {<<x>> : x \in AmountStrs} : LoadSuccessPage(sid, amt)
    \/ \E sid \in {<<>>} \cup {<<x>> : x \in Sessions},
          amt \in {<<>>} \cup {<<x>> : x \in AmountStrs} : SearchParamsChanged(sid, amt)
    \/ \E u \in {<<>>} \cup {<<x>> : x \in Donors} : AuthResolved(u)
    \/ UpdateDonationCount
    \/ IncrementApplied

SpecPay == InitPay /\ [][NextPay]_vars

(***************************************************************************)
(* Specification of the food requests                                       *)
(***************************************************************************)
InitReq ==
    /\ ReqInit
    /\ OppInit(1) /\ DonInit /\ IssueInit("health", "health") /\ PayInit
    /\ BoardInit(0, 0) /\ DonorInit(0) /\ ToastInit

NextReq ==
    \/ \E r \in Restaurants : FetchRequests(r)
    \/ \E r \in Restaurants, id \in RequestIds, st \in {"accepted", "rejected"} :
          HandleVerification(r, id, st)

SpecReq == InitReq /\ [][NextReq]_vars

(***************************************************************************)
(* Specification of the donation leaderboard                                *)
(***************************************************************************)
InitBoard ==
    /\ \E n \in 0..MaxRestaurants, b \in 0..MaxExtra : BoardInit(n, b)
    /\ OppInit(1) /\ DonInit /\ IssueInit("health", "health") /\ PayInit
    /\ ReqInit /\ DonorInit(0) /\ ToastInit

NextBoard ==
    \/ \E u \in {<<>>} \cup {<<x>> : x \in Donors} : FetchRestaurantData(u)
    \/ \E k \in 1..(MaxOvertakes + 1), ok \in BOOLEAN : ProfileResolved(k, ok)
    \/ LeaderboardSorted

SpecBoard == InitBoard /\ [][NextBoard]_vars

(***************************************************************************)
(* Specification of the monetary leaderboard                                *)
(***************************************************************************)
InitDonors ==
    /\ \E n \in 0..MaxDonors : DonorInit(n)
    /\ OppInit(1) /\ DonInit /\ IssueInit("health", "health") /\ PayInit
    /\ ReqInit /\ BoardInit(0, 0) /\ ToastInit

NextDonors ==
    \/ \E i \in DonorProfiles, amount \in CreditAmounts : DonationCredited(i, amount)
    \/ \E u \in {<<>>} \cup {<<x>> : x \in Donors} : FetchDonorData(u)

SpecDonors == InitDonors /\ [][NextDonors]_vars

(***************************************************************************)
(* Properties of the opportunities                                          *)
(***************************************************************************)

\* C1: in every reachable state the number of distinct actors in
\* signedUpVolunteers is at most spots.
C1_SeatsNeverOversold ==
    Cardinality(Range(opp.signedUpVolunteers)) <= opp.spots

\* C2: of two concurrent sign-ups for the last seat (each payload says it
\* fills the opportunity) only one succeeds: the one that reaches the store
\* after the seat was taken is not reported successful and its actor is not
\* added to signedUpVolunteers.
C2_LastSeatHasOneWinner ==
    [][\A v \in Volunteers :
          ( /\ SignUpCommit(v)
            /\ Head(oppQueue[v]).full
            /\ Len(opp.signedUpVolunteers) >= opp.spots
            /\ v \notin Range(opp.signedUpVolunteers) )
          => ( /\ v \notin Range(opp'.signedUpVolunteers)
               /\ toast'[v] # "Sign Up Successful!" )]_vars

\* C4: a sign-up by an actor the stored set already holds is answered with
\* Already Signed Up and leaves the cardinality of the set unchanged, also
\* when the call was made from a copy read before the first sign-up committed.
C4_SecondSignUpIsAlreadySignedUp ==
    [][\A v \in Volunteers :
          (SignUpCommit(v) /\ v \in Range(opp.signedUpVolunteers))
          => ( /\ toast'[v] = "Already Signed Up"
               /\ Len(opp'.signedUpVolunteers) = Len(opp.signedUpVolunteers) )]_vars

\* C5: unless the opportunity is closed by hand, status is full exactly when
\* the set has at least spots members and open exactly when it has fewer.
C5_StatusMatchesFullness ==
    opp.status # "closed" =>
        /\ opp.status = "full" <=> Len(opp.signedUpVolunteers) >= opp.spots
        /\ opp.status = "open" <=> Len(opp.signedUpVolunteers) < opp.spots

\* C6: a cancellation the store has applied leaves status = open, whatever
\* the status was before and however many seats stay occupied.
C6_CancelAlwaysReopens ==
    [][\A v \in Volunteers : CancelCommit(v) => opp'.status = "open"]_vars

\* C6 witness: a cancellation went through while the remaining volunteers
\* still fill every seat, and the opportunity is open.
C6_Witness ==
    \E v \in Volunteers :
        /\ toast[v] = "Sign Up Cancelled"
        /\ opp.status = "open"
        /\ v \notin Range(opp.signedUpVolunteers)
        /\ Len(opp.signedUpVolunteers) >= opp.spots

\* C15: a sign-up that reaches the store while the stored status is not open
\* (full or closed) is not reported successful and adds nobody, however many
\* seats are free.
C15_SignUpRefusedUnlessOpen ==
    [][\A v \in Volunteers :
          (SignUpCommit(v) /\ opp.status # "open")
          => ( /\ opp'.signedUpVolunteers = opp.signedUpVolunteers
               /\ toast'[v] # "Sign Up Successful!" )]_vars

\* C16: a cancellation by an actor the stored set does not hold is not
\* reported as a cancellation and leaves the document, status included,
\* unchanged.
C16_CancelByNonMemberRefused ==
    [][\A v \in Volunteers :
          (CancelCommit(v) /\ v \notin Range(opp.signedUpVolunteers))
          => ( /\ opp' = opp
               /\ toast'[v] # "Sign Up Cancelled" )]_vars

\* C18: a sign-up the store applies adds its actor and loses nobody; a
\* cancellation removes its actor and nobody else.
C18_NoLostUpdates ==
    [][\A v \in Volunteers :
          /\ SignUpCommit(v) =>
                Range(opp'.signedUpVolunteers) = Range(opp.signedUpVolunteers) \cup {v}
          /\ CancelCommit(v) =>
                Range(opp'.signedUpVolunteers) = Range(opp.signedUpVolunteers) \ {v}]_vars

\* C18 witness: with two seats, both volunteers signed up from a list that
\* showed nobody (each one's copy holds only its owner), and the stored set
\* holds both.
C18_Witness ==
    /\ opp.spots >= 2
    /\ Range(opp.signedUpVolunteers) = Volunteers
    /\ \A v \in Volunteers :
          /\ toast[v] = "Sign Up Successful!"
          /\ Len(oppView[v]) = 1
          /\ oppView[v][1].signedUpVolunteers = <<v>>

\* C30: a volunteer's local copy of an opportunity never lists the same
\* actor twice in signedUpVolunteers.
C30_LocalCopyHasNoDuplicates ==
    \A v \in Volunteers :
        \A k \in 1..Len(oppView[v]) :
            LET l == oppView[v][k].signedUpVolunteers IN
            \A i, j \in 1..Len(l) : i # j => l[i] # l[j]

(***************************************************************************)
(* Properties of the food donations                                         *)
(***************************************************************************)

\* C3: of the claims made on one available donation at most one is reported
\* as Donation Claimed, and the claimant recorded on the donation is the
\* actor whose claim was reported successful.
C3_ExactlyOneClaimSucceeds ==
    /\ \A a, b \in Volunteers :
          (toast[a] = "Donation Claimed!" /\ toast[b] = "Donation Claimed!")
          => a = b
    /\ \A a \in Volunteers :
          toast[a] = "Donation Claimed!" => don.claimedByVolunteerId = <<a>>

\* C8: markUnavailable on a donation whose stored status is claimed is not
\* reported as an update and leaves every field of the document unchanged,
\* also when the restaurant's list still shows the donation as available.
C8_MarkUnavailableRejectedOnClaimed ==
    [][\A r \in Restaurants :
          (MarkDonationUnavailable(r) /\ don.status = "claimed")
          => (don' = don /\ toast'[r] # "Donation Updated")]_vars

\* C9: the status of a donation changes only from available, to claimed or
\* to unavailable: claimed and unavailable are never left.
C9_DonationStatusOneWay ==
    [][don'.status # don.status =>
          /\ don.status = "available"
          /\ don'.status \in {"claimed", "unavailable"}]_vars

C25_ClaimedIffClaimantRecorded ==
    (don.status = "claimed") <=> (don.claimedByVolunteerId # <<>>)

(***************************************************************************)
(* Properties of the issues                                                 *)
(***************************************************************************)

\* C7: no operation moves an issue out of resolved: a transition to
\* in-progress attempted on a resolved issue, also from a list in which the
\* issue still looks pending, is not reported as an update and the stored
\* status stays resolved.
C7_ResolvedIsTerminal ==
    [][/\ \A id \in IssueIds :
             issues[id].status = "resolved" => issues'[id].status = "resolved"
       /\ \A n \in Ngos, id \in IssueIds :
             (HandleUpdateStatus(n, id, "in-progress") /\ issues[id].status = "resolved")
             => toast'[n] # "Status Updated"]_vars

\* the issues an NGO's list shows
Visible(n) == {issuesView[n][k].id : k \in 1..Len(issuesView[n])}

\* C11 as stated: the list an NGO's fetch produces holds an issue if and only
\* if the issue's category is one of the NGO's focus areas.
C11_VisibleIffCategoryInFocusAreas ==
    [][\A n \in Ngos :
          FetchIssues(n) =>
             \A id \in IssueIds :
                id \in Visible(n)' <=> issues[id].category \in Range(FocusAreas[n])]_vars

\* C11 amended: for an NGO with at most 30 focus areas, the list its fetch
\* produces holds an issue if and only if the issue is pending or in progress
\* and its category is one of the NGO's focus areas.
C11_ActionableVisibleIffCategoryInFocusAreas ==
    [][\A n \in Ngos :
          (FetchIssues(n) /\ Len(FocusAreas[n]) <= InQueryLimit) =>
             \A id \in IssueIds :
                id \in Visible(n)' <=>
                   /\ issues[id].category \in Range(FocusAreas[n])
                   /\ issues[id].status \in {"pending", "in-progress"}]_vars

\* C11 witness: a pending education issue is on the list of n1 (education,
\* health) and not on the list n2 (health only) has loaded.
C11_Witness ==
    \E id \in IssueIds :
        /\ issues[id].category = "education"
        /\ issues[id].status = "pending"
        /\ id \in Visible("n1")
        /\ ngoProfile["n2"] # <<>>
        /\ id \notin Visible("n2")

C19_AllFocusAreasQueried ==
    [][\A n \in Ngos :
          FetchIssues(n) =>
             \A id \in IssueIds :
                ( /\ issues[id].category \in Range(FocusAreas[n])
                  /\ issues[id].status \in {"pending", "in-progress"} )
                => id \in Visible(n)']_vars

\* C20: an NGO without focus areas is shown no issue and is told that no
\* focus areas are set; what it is shown differs from what an NGO with focus
\* areas and no matching issue is shown.
C20_NoFocusAreasIsDistinct ==
    \A n \in Ngos :
       (ngoProfile[n] # <<>> /\ Len(FocusAreas[n]) = 0) =>
          /\ issuesView[n] = <<>>
          /\ Rendered(n).description.text =
                "No focus areas set in your profile to filter issues."
          /\ \A m \in Ngos :
                (ngoProfile[m] # <<>> /\ Len(FocusAreas[m]) > 0 /\ issuesView[m] = <<>>)
                => /\ Rendered(m) # Rendered(n)
                   /\ Rendered(m).description.text #
                         "No focus areas set in your profile to filter issues."

\* C20 witness: n4 (no focus areas) and n2 (health only, no health issue
\* filed) both have loaded their dashboard and both lists are empty.
C20_Witness ==
    /\ ngoProfile["n4"] # <<>>
    /\ ngoProfile["n2"] # <<>>
    /\ issuesView["n2"] = <<>>
    /\ \A id \in IssueIds : issues[id].category # "health"
    /\ Rendered("n2") # Rendered("n4")

\* C26: every issue starts pending, a status update writes in-progress or
\* resolved, and no step takes an issue that has left pending back to it.
C26_NeverBackToPending ==
    /\ \A id \in IssueIds : issues[id].status = "pending"
    /\ [][/\ \A id \in IssueIds :
                issues[id].status # "pending" => issues'[id].status # "pending"
          /\ \A n \in Ngos, id \in IssueIds, st \in {"in-progress", "resolved"} :
                HandleUpdateStatus(n, id, st)
                => issues'[id].status \in {"in-progress", "resolved"}]_vars

\* C26 witness: an issue one NGO resolved was updated again from another
\* NGO's list and is in progress, not pending.
C26_Witness ==
    \E id \in IssueIds, n \in Ngos :
        /\ issues[id].status = "in-progress"
        /\ \E k \in 1..Len(issuesView[n]) :
              /\ issuesView[n][k].id = id
              /\ issuesView[n][k].status = "resolved"

\* C29: the list an NGO's fetch produces holds only issues that are pending
\* or in progress in the store at that time, with that status: an issue that
\* is resolved is not on it, whatever its category.
C29_FetchedIssuesAreActionable ==
    [][\A n \in Ngos :
          FetchIssues(n) =>
             /\ \A k \in 1..Len(issuesView'[n]) :
                   /\ issuesView'[n][k].status \in {"pending", "in-progress"}
                   /\ issuesView'[n][k].status = issues[issuesView'[n][k].id].status
             /\ \A id \in IssueIds :
                   issues[id].status = "resolved" => id \notin Visible(n)']_vars

\* C29 witness: a health issue is resolved in the store and the list n1
\* (education, health) has fetched since does not hold it, while it holds the
\* other issue.
C29_Witness ==
    \E id, other \in IssueIds :
        /\ issues[id].status = "resolved"
        /\ issues[id].category = "health"
        /\ ngoProfile["n1"] # <<>>
        /\ id \notin Visible("n1")
        /\ other \in Visible("n1")

(***************************************************************************)
(* Properties of the monetary total                                         *)
(***************************************************************************)

\* the amount of the first increment the store applied for a session, 0 if none
FirstCredit(s) ==
    IF \E i \in 1..Len(credited) : credited[i].sessionId = s
    THEN credited[CHOOSE i \in 1..Len(credited) :
                     /\ credited[i].sessionId = s
                     /\ \A j \in 1..(i - 1) : credited[j].sessionId # s].amount
    ELSE 0

RECURSIVE SumFirstCredits(_)
SumFirstCredits(S) ==
    IF S = {} THEN 0
    ELSE LET s == CHOOSE x \in S : TRUE
         IN  FirstCredit(s) + SumFirstCredits(S \ {s})

\* C10: however often the increment for one payment session is applied,
\* totalDonated grows by that session's amount exactly once.
C10_IncrementIdempotentPerSession ==
    Total(userDoc) = SumFirstCredits(Sessions)

\* the sum of the amounts of the increments the store has applied
RECURSIVE SumCredited(_)
SumCredited(cs) ==
    IF cs = <<>> THEN 0 ELSE Head(cs).amount + SumCredited(Tail(cs))

\* C22: no increment is lost: totalDonated is the sum of the amounts of all
\* increments the store has applied, also for confirmations with distinct
\* session ids that were in flight at the same time.
C22_NoIncrementLost ==
    Total(userDoc) = SumCredited(credited)

\* both sessions confirmed, with different amounts, and nothing in flight
C22_Witness ==
    /\ payQueue = <<>>
    /\ Len(credited) = 2
    /\ credited[1].sessionId # credited[2].sessionId
    /\ credited[1].amount # credited[2].amount
    /\ Total(userDoc) = credited[1].amount + credited[2].amount

\* C27: an increment is sent only by a page with a logged-in user, a
\* session_id and an amount that is a number above 0; a run of the update on
\* a page without session_id, without amount, or with an amount that is not a
\* number or not above 0 ends in the error state with a message and leaves
\* the store alone; totalDonated never decreases.
C27_InvalidPageSendsNoIncrement ==
    [][/\ Len(payQueue') > Len(payQueue)
          => /\ Len(page) = 1
             /\ page[1].user # <<>>
             /\ page[1].sessionId # <<>>
             /\ page[1].amount \in {<<"25">>, <<"50">>}
       /\ ( /\ UpdateDonationCount
            /\ \/ page[1].sessionId = <<>>
               \/ page[1].amount \in {<<>>, <<"0">>, <<"-5">>, <<"abc">>} )
          => /\ page'[1].updateStatus = "error"
             /\ page'[1].errorMessage # <<>>
             /\ payQueue' = payQueue
             /\ userDoc' = userDoc
       /\ Total(userDoc') >= Total(userDoc)]_vars

\* C27 witness: after one increment of 25 was applied, a page loaded with
\* amount=-5 has run its update: it shows the error state, nothing is in
\* flight and totalDonated is still 25.
C27_Witness ==
    /\ Len(credited) = 1
    /\ Total(userDoc) = 25
    /\ payQueue = <<>>
    /\ Len(page) = 1
    /\ page[1].user # <<>>
    /\ page[1].sessionId # <<>>
    /\ page[1].amount = <<"-5">>
    /\ page[1].updateStatus = "error"
    /\ page[1].errorMessage = <<"Invalid donation amount received.">>

\* C28: a mounted page sends an increment only in the step that takes its
\* update status from idle to pending, only a new mount starts at idle again,
\* and the status is pending only while the increment is in flight: once the
\* update has completed the status is success or error.
C28_OneIncrementPerMount ==
    /\ [][/\ Len(payQueue') > Len(payQueue)
              => /\ Len(payQueue') = Len(payQueue) + 1
                 /\ page[1].updateStatus = "idle"
                 /\ page'[1].updateStatus = "pending"
          /\ (Len(page) = 1 /\ page[1].updateStatus # "idle" /\ page'[1].updateStatus = "idle")
              => \E sid \in {<<>>} \cup {<<x>> : x \in Sessions},
                    amt \in {<<>>} \cup {<<x>> : x \in AmountStrs} :
                    LoadSuccessPage(sid, amt)]_vars
    /\ [](Len(page) = 1 /\ page[1].updateStatus = "pending" => payQueue # <<>>)

(***************************************************************************)
(* Properties of the donation leaderboard                                   *)
(***************************************************************************)

\* the claimed donations of a restaurant in the collection
ClaimedCount(id) ==
    Cardinality({i \in 1..Len(donations) :
                    /\ donations[i].status = "claimed"
                    /\ donations[i].restaurantId = <<id>>})

\* C12: the leaderboard a fetch has produced gives each listed restaurant the
\* number of its claimed donations, lists no restaurant twice, is ordered by
\* count descending, has at most 10 entries, and leaves out a restaurant with
\* a claimed donation only when 10 restaurants with at least as many are shown.
C12_DonationLeaderboard ==
    (board.pc = "done" /\ board.error = <<>>) =>
        LET lb == board.restaurantLeaderboard IN
        /\ \A k \in 1..Len(lb) : lb[k].donationCount = ClaimedCount(lb[k].id)
        /\ \A j, k \in 1..Len(lb) : j < k =>
              /\ lb[j].id # lb[k].id
              /\ lb[j].donationCount >= lb[k].donationCount
        /\ Len(lb) <= 10
        /\ \A id \in BoardRestaurants :
              (ClaimedCount(id) > 0 /\ \A k \in 1..Len(lb) : lb[k].id # id)
              => /\ Len(lb) = 10
                 /\ \A k \in 1..Len(lb) : lb[k].donationCount >= ClaimedCount(id)

\* C12 witness: restaurant 2 has 3 claimed donations and restaurant 1 has 1,
\* more than 10 restaurants have one, and the leaderboard shows 10 entries
\* with restaurant 2 on top, count 3, above restaurant 1, count 1.
C12_Witness ==
    /\ board.pc = "done"
    /\ ClaimedCount(2) = 3
    /\ ClaimedCount(1) = 1
    /\ Cardinality({id \in BoardRestaurants : ClaimedCount(id) > 0}) > 10
    /\ Len(board.restaurantLeaderboard) = 10
    /\ board.restaurantLeaderboard[1].id = 2
    /\ board.restaurantLeaderboard[1].donationCount = 3
    /\ \E k \in 2..10 :
          /\ board.restaurantLeaderboard[k].id = 1
          /\ board.restaurantLeaderboard[k].donationCount = 1

\* C23: a profile lookup that fails does not stop the leaderboard: the
\* restaurant gets its entry with its count of claimed donations and the name
\* "Restaurant (<id-prefix>)", the other lookups push their entries as they
\* would have, and the leaderboard is produced from all entries without error.
C23_FailedLookupKeepsEntry ==
    [][/\ \A k \in 1..Len(board.pending) :
             LET id == board.pending[k] IN
             /\ ProfileResolved(k, FALSE)
                => /\ board'.pc = "profiles"
                   /\ board'.error = <<>>
                   /\ board'.leaderboardEntries =
                         Append(board.leaderboardEntries,
                                [id            |-> id,
                                 name          |-> [field |-> "Restaurant (...)", of |-> id],
                                 donationCount |-> ClaimedCount(id)])
             /\ ProfileResolved(k, TRUE)
                => board'.leaderboardEntries =
                      Append(board.leaderboardEntries,
                             [id            |-> id,
                              name          |-> LookedUpName(id),
                              donationCount |-> ClaimedCount(id)])
       /\ LeaderboardSorted
          => LET lb == board'.restaurantLeaderboard IN
             /\ board'.pc = "done"
             /\ board'.error = <<>>
             /\ Range(lb) \subseteq Range(board.leaderboardEntries)
             /\ Len(lb) = Min(Len(board.leaderboardEntries), 10)
             /\ \A e \in Range(board.leaderboardEntries) \ Range(lb) :
                   \A j \in 1..Len(lb) : lb[j].donationCount >= e.donationCount]_vars

\* C23 witness: the lookup for restaurant 2, whose profile has a restName,
\* failed; the leaderboard shows it on top with its 3 claimed donations under
\* the fallback name, and restaurant 1 under the name of its user document.
C23_Witness ==
    /\ board.pc = "done"
    /\ board.error = <<>>
    /\ board.failures = 1
    /\ RestName(2) # <<>>
    /\ ClaimedCount(2) = 3
    /\ board.restaurantLeaderboard[1] =
          [id |-> 2, name |-> [field |-> "Restaurant (...)", of |-> 2], donationCount |-> 3]
    /\ \E k \in 2..Len(board.restaurantLeaderboard) :
          board.restaurantLeaderboard[k] =
             [id |-> 1, name |-> [field |-> "name", of |-> 1], donationCount |-> 1]

(***************************************************************************)
(* Properties of the monetary leaderboard                                   *)
(***************************************************************************)

\* the profiles whose stored totalDonated is a number above 0
PositiveDonors ==
    {i \in DonorProfiles : users[i].totalDonated # <<>> /\ users[i].totalDonated[1] > 0}

\* C24: the monetary leaderboard a logged-in fetch produces holds only
\* profiles with totalDonated > 0, each once and with its stored total, in
\* descending order of totalDonated, the 10 highest when there are more: a
\* profile with totalDonated absent or 0 is never on it.
C24_MonetaryLeaderboard ==
    [][\A u \in Donors :
          FetchDonorData(<<u>>) =>
             LET lb == donorBoard'.donorLeaderboard IN
             /\ \A k \in 1..Len(lb) :
                   /\ lb[k].id \in PositiveDonors
                   /\ users[lb[k].id].totalDonated = <<lb[k].totalDonated>>
             /\ \A j, k \in 1..Len(lb) : j < k =>
                   /\ lb[j].id # lb[k].id
                   /\ lb[j].totalDonated >= lb[k].totalDonated
             /\ Len(lb) = Min(Cardinality(PositiveDonors), 10)
             /\ \A i \in PositiveDonors :
                   (\A k \in 1..Len(lb) : lb[k].id # i)
                   => \A k \in 1..Len(lb) : lb[k].totalDonated >= users[i].totalDonated[1]]_vars

\* C24 witness: 11 profiles have a positive total, profile 1 since an
\* increment on its document, which had none; the leaderboard of the stored
\* totals shows 10 of them, and neither profile 2 (total 0) nor a profile
\* without totalDonated.
C24_Witness ==
    /\ Cardinality(PositiveDonors) = 11
    /\ CreditsApplied = 1
    /\ 1 \in PositiveDonors
    /\ users[2].totalDonated = <<0>>
    /\ \E i \in DonorProfiles : users[i].totalDonated = <<>>
    /\ donorBoard.error = <<>>
    /\ donorBoard.donorLeaderboard = DonorsQuery(users)
    /\ Len(donorBoard.donorLeaderboard) = 10
    /\ \A k \in 1..10 : donorBoard.donorLeaderboard[k].id \in PositiveDonors

(***************************************************************************)
(* Properties of the food requests                                          *)
(***************************************************************************)

\* C13: once a food request has left pending, no accept or reject changes
\* its status, also when it comes from a list that still shows it pending.
C13_FoodRequestTerminal ==
    [][\A id \in RequestIds :
          requests[id].status # "pending"
          => requests'[id].status = requests[id].status]_vars

\* C21: the restaurant recorded on a food request is the one that took it
\* out of pending: an accept or reject writes the status and the identity of
\* its caller together, and once the request has left pending the recorded
\* identity is not replaced, also when a second restaurant acts on it.
C21_RecordedRestaurantMadeTheTransition ==
    [][\A id \in RequestIds :
          /\ \A r \in Restaurants, st \in {"accepted", "rejected"} :
                HandleVerification(r, id, st)
                => /\ requests'[id].status = st
                   /\ requests'[id].restaurantId = <<r>>
          /\ requests[id].status # "pending"
             => requests'[id].restaurantId = requests[id].restaurantId]_vars

====
